---- MODULE Spec2Model ----
(***************************************************************************)
(* PeriodicExecutor (include/PeriodicExecutor.hpp): one steady_timer on a  *)
(* private io_context, one worker thread running io_context::run(), and    *)
(* the handler handle_wait bound to a strand.  Caller threads drive        *)
(* start / pause / resume / stop; every statement that touches state       *)
(* shared with the worker is one step, so the caller and the worker        *)
(* interleave as the threads of the program do.                            *)
(***************************************************************************)
EXTENDS Naturals, Sequences, FiniteSets

(* ------------------------------ bounds -------------------------------- *)

\* the clock runs from 0 to MaxTime
MaxTime == 3
\* number of calls of start/stop/pause/resume a run makes
MaxCalls == 5

\* the intervals and callbacks handed to start()
Intervals == {1, 2}
Callbacks == {"cbA", "cbB"}
NoCallback == "empty"
\* the calls of start() a run can make
StartArgs == {<<1, "cbA">>, <<2, "cbB">>}

\* the worker thread, and the threads of an external executor
Worker == "worker"
\* caller threads; Spec drives the instance from the one thread MainThread, and
\* the worker is a caller when the callback calls an operation of the instance
Callers == {"main", "other", Worker}
MainThread == "main"
PoolOrder == <<"pool1", "pool2">>
Pool == {PoolOrder[i] : i \in 1..Len(PoolOrder)}
HandlerThreads == {Worker} \cup Pool

VARIABLES
    is_running_,    \* bool is_running_
    is_paused_,     \* bool is_paused_
    interval_,      \* std::chrono::milliseconds interval_ (0: not yet set)
    callback_,      \* std::function<void()> callback_
    expiry,         \* timer_.expiry()
    pending,        \* number of waits pending on timer_
    queue,          \* io_context_: completed waits whose handler is ready to run
    stopped,        \* io_context_.stopped()
    work_guard,     \* work_guard_.owns_work()
    external,       \* strand_ built on an external executor (second constructor)
    strandq,        \* strand_: handlers dispatched to it and not yet run
    thread,         \* the thread of worker_thread_: "none", "running", "exited",
                    \* "terminated" (an exception left the thread function)
    joinable,       \* worker_thread_.joinable()
    hpc,            \* per thread: where it is inside handle_wait ("peer": inside
                    \* the handler of another instance on the same executor)
    now,            \* steady_clock::now()
    pc,             \* per caller: the statement it is at
    arg,            \* per caller: the arguments of its start()
    op,             \* per caller: the operation it called last
    ret,            \* per caller: how that call returned
    calls,          \* number of calls made
    count,          \* number of callback invocations begun
    countAtPause,   \* count when the last accepted pause() was called
    stopReturned,   \* a stop() that found the instance active has returned
    spawned,        \* number of worker threads created
    armedAt,        \* now at the last expires_from_now
    armedBy,        \* the operation of that expires_from_now: "start" or "resume"
    begun,          \* number of invocations begun since that expires_from_now
    anchorOf        \* per thread: the anchor of the wait of its last invocation

\* the fields of the instance and what hangs on them
timerVars == <<expiry, pending>>
contextVars == <<queue, stopped, work_guard, external, strandq>>
threadVars == <<thread, joinable, hpc, spawned>>
fieldVars == <<is_running_, is_paused_, interval_, callback_>>
programVars == <<fieldVars, timerVars, contextVars, threadVars>>
callerVars == <<pc, arg, op, ret, calls>>
periodVars == <<armedBy, begun, anchorOf>>
historyVars == <<count, countAtPause, stopReturned, armedAt, periodVars>>
vars == <<programVars, callerVars, historyVars, now>>

(* --------------------------- timer and context ------------------------ *)

Wait(ec, anchor) == [ec |-> ec, anchor |-> anchor]

\* the handlers of n waits on the timer, completed with error code ec
Completed(n, ec) == [i \in 1..n |-> Wait(ec, expiry)]

\* timer_.cancel(): every pending wait completes with operation_aborted
Cancel ==
    /\ queue' = queue \o Completed(pending, "operation_aborted")
    /\ pending' = 0

\* timer_.expires_at(t): cancels the pending waits and moves the expiry
ExpiresAt(t) ==
    /\ Cancel
    /\ expiry' = t

\* a timer armed at the current time instead of one interval ahead
ExpiresImmediately(d) == ExpiresAt(now)

\* timer_.expires_from_now(d)
ExpiresFromNow(d) == ExpiresAt(now + d)

\* timer_.async_wait(bind_executor(strand_, handle_wait))
AsyncWait == pending' = pending + 1

\* an io_context that forgets it was stopped
ContextNeverStopped == FALSE

\* io_context_.stopped(): run() returns, and runs nothing, while it holds
ContextStopped == stopped

\* an io_context_ without the work guard: run() returns when no wait is left
OutOfWorkUnguarded == pending = 0 /\ queue = <<>>

\* io_context_ has nothing left to do: run() returns
OutOfWork == ~work_guard /\ pending = 0 /\ queue = <<>>

\* handlers run on the executor directly, without the strand
StrandUnlocked == TRUE

\* the strand runs one handler at a time
StrandFree == \A h \in HandlerThreads : hpc[h] \in {"idle", "peer"}

\* handle_wait without the test of the error code
HandleWaitIgnoresError(w) == is_paused_

\* handle_wait without the test of is_paused_
HandleWaitIgnoresPause(w) == w.ec = "operation_aborted"

\* handle_wait returns at once: the wait was cancelled or the instance is paused
HandleWaitSkips(w) == w.ec = "operation_aborted" \/ is_paused_

\* a join that does not wait for the thread
JoinWithoutWaiting == TRUE

\* worker_thread_.join() returns once the thread has left io_context_.run()
JoinReturns == thread = "exited"

(* ------------------------------- Init --------------------------------- *)

NoArg == [interval |-> 0, callback |-> NoCallback]

\* the state the constructors leave, but for the executor of strand_
Constructed ==
    /\ is_running_ = FALSE
    /\ is_paused_ = FALSE
    /\ interval_ = 0
    /\ callback_ = NoCallback
    /\ expiry = 0
    /\ pending = 0
    /\ queue = <<>>
    /\ stopped = FALSE
    /\ work_guard = TRUE
    /\ strandq = <<>>
    /\ thread = "none"
    /\ joinable = FALSE
    /\ hpc = [h \in HandlerThreads |-> "idle"]
    /\ now = 0
    /\ pc = [t \in Callers |-> "idle"]
    /\ arg = [t \in Callers |-> NoArg]
    /\ op = [t \in Callers |-> "none"]
    /\ ret = [t \in Callers |-> "none"]
    /\ calls = 0
    /\ count = 0
    /\ countAtPause = 0
    /\ stopReturned = FALSE
    /\ spawned = 0
    /\ armedAt = 0
    /\ armedBy = "none"
    /\ begun = 0
    /\ anchorOf = [h \in HandlerThreads |-> 0]

\* PeriodicExecutor(): strand_ on io_context_'s own executor
Init == Constructed /\ external = FALSE

\* either constructor: PeriodicExecutor() or PeriodicExecutor(Executor)
InitAnyExecutor == Constructed /\ external \in BOOLEAN

(* ------------------------------- start -------------------------------- *)

Calling(t, name) ==
    /\ pc[t] = "idle"
    /\ op[t] # "destroy"
    /\ calls < MaxCalls
    /\ calls' = calls + 1
    /\ op' = [op EXCEPT ![t] = name]

Goto(t, label) == pc' = [pc EXCEPT ![t] = label]

Returns(t, how) ==
    /\ pc' = [pc EXCEPT ![t] = "idle"]
    /\ ret' = [ret EXCEPT ![t] = how]

\* start() without the test of is_running_
StartUnchecked(t, interval, callback) ==
    /\ Calling(t, "start")
    /\ Goto(t, "start_assign")
    /\ arg' = [arg EXCEPT ![t] = [interval |-> interval, callback |-> callback]]
    /\ ret' = [ret EXCEPT ![t] = "none"]
    /\ UNCHANGED <<programVars, historyVars, now>>

\* start(): if (is_running_) return false;
Start(t, interval, callback) ==
    /\ Calling(t, "start")
    /\ IF is_running_
       THEN /\ Returns(t, "false")
            /\ UNCHANGED arg
       ELSE /\ Goto(t, "start_assign")
            /\ arg' = [arg EXCEPT ![t] = [interval |-> interval, callback |-> callback]]
            /\ ret' = [ret EXCEPT ![t] = "none"]
    /\ UNCHANGED <<programVars, historyVars, now>>

\* callback_ = callback; interval_ = interval; is_running_ = true; is_paused_ = false;
StartAssign(t) ==
    /\ pc[t] = "start_assign"
    /\ callback_' = arg[t].callback
    /\ interval_' = arg[t].interval
    /\ is_running_' = TRUE
    /\ is_paused_' = FALSE
    /\ Goto(t, "start_expires")
    /\ UNCHANGED <<timerVars, contextVars, threadVars, arg, op, ret, calls,
                   historyVars, now>>

\* timer_.expires_from_now(interval_);
StartExpires(t) ==
    /\ pc[t] = "start_expires"
    /\ ExpiresFromNow(interval_)
    /\ armedAt' = now
    /\ armedBy' = "start"
    /\ begun' = 0
    /\ Goto(t, "start_wait")
    /\ UNCHANGED <<fieldVars, stopped, work_guard, external, strandq, threadVars,
                   arg, op, ret, calls, count, countAtPause, stopReturned,
                   anchorOf, now>>

\* timer_.async_wait(...);
StartAsyncWait(t) ==
    /\ pc[t] = "start_wait"
    /\ AsyncWait
    /\ Goto(t, "start_thread")
    /\ UNCHANGED <<fieldVars, expiry, contextVars, threadVars, arg, op, ret, calls,
                   historyVars, now>>

\* worker_thread_ = boost::thread([this]() { io_context_.run(); }); return true;
StartThread(t) ==
    /\ pc[t] = "start_thread"
    /\ thread' = "running"
    /\ joinable' = TRUE
    /\ spawned' = spawned + 1
    /\ Returns(t, "true")
    /\ UNCHANGED <<fieldVars, timerVars, contextVars, hpc, arg, op, calls,
                   historyVars, now>>

(* -------------------------------- stop -------------------------------- *)

\* stop() without the test of is_running_
StopUnchecked(t) ==
    /\ Calling(t, "stop")
    /\ Goto(t, "stop_cancel")
    /\ ret' = [ret EXCEPT ![t] = "none"]
    /\ UNCHANGED <<programVars, arg, historyVars, now>>

\* stop(): if (!is_running_) return;
Stop(t) ==
    /\ Calling(t, "stop")
    /\ IF ~is_running_
       THEN Returns(t, "noop")
       ELSE Goto(t, "stop_cancel") /\ ret' = [ret EXCEPT ![t] = "none"]
    /\ UNCHANGED <<programVars, arg, historyVars, now>>

\* timer_.cancel(ec);
StopCancel(t) ==
    /\ pc[t] = "stop_cancel"
    /\ Cancel
    /\ Goto(t, "stop_guard")
    /\ UNCHANGED <<fieldVars, expiry, stopped, work_guard, external, strandq,
                   threadVars, arg, op, ret, calls, historyVars, now>>

\* work_guard_.reset();
StopGuard(t) ==
    /\ pc[t] = "stop_guard"
    /\ work_guard' = FALSE
    /\ Goto(t, "stop_context")
    /\ UNCHANGED <<fieldVars, timerVars, queue, stopped, external, strandq,
                   threadVars, arg, op, ret, calls, historyVars, now>>

\* io_context_.stop();
StopContext(t) ==
    /\ pc[t] = "stop_context"
    /\ stopped' = TRUE
    /\ Goto(t, "stop_join")
    /\ UNCHANGED <<fieldVars, timerVars, queue, work_guard, external, strandq,
                   threadVars, arg, op, ret, calls, historyVars, now>>

\* if (worker_thread_.joinable()) { worker_thread_.join(); }
StopJoin(t) ==
    /\ pc[t] = "stop_join"
    /\ IF joinable
       THEN JoinReturns /\ joinable' = FALSE
       ELSE UNCHANGED joinable
    /\ Goto(t, "stop_flags")
    /\ UNCHANGED <<fieldVars, timerVars, contextVars, thread, hpc, spawned,
                   arg, op, ret, calls, historyVars, now>>

\* a stop() that resets is_running_ only
StopFlagsKeepsPaused(t) ==
    /\ pc[t] = "stop_flags"
    /\ is_running_' = FALSE
    /\ stopReturned' = TRUE
    /\ Returns(t, "done")
    /\ UNCHANGED <<is_paused_, interval_, callback_, timerVars, contextVars,
                   threadVars, arg, op, calls, count, countAtPause, armedAt,
                   periodVars, now>>

\* is_running_ = false; is_paused_ = false;
StopFlags(t) ==
    /\ pc[t] = "stop_flags"
    /\ is_running_' = FALSE
    /\ is_paused_' = FALSE
    /\ stopReturned' = TRUE
    /\ Returns(t, "done")
    /\ UNCHANGED <<interval_, callback_, timerVars, contextVars, threadVars,
                   arg, op, calls, count, countAtPause, armedAt, periodVars, now>>

\* a destructor that does not call stop()
DestroyWithoutStop(t) ==
    /\ Calling(t, "destroy")
    /\ Returns(t, "noop")
    /\ UNCHANGED <<programVars, arg, historyVars, now>>

\* ~PeriodicExecutor(): stop(); after it returns the instance is gone
Destroy(t) ==
    /\ Calling(t, "destroy")
    /\ IF ~is_running_
       THEN Returns(t, "noop")
       ELSE Goto(t, "stop_cancel") /\ ret' = [ret EXCEPT ![t] = "none"]
    /\ UNCHANGED <<programVars, arg, historyVars, now>>

(* ------------------------------- pause -------------------------------- *)

\* pause() that tests is_running_ only
PauseWhenRunning(t) ==
    /\ Calling(t, "pause")
    /\ IF ~is_running_
       THEN Returns(t, "noop") /\ UNCHANGED countAtPause
       ELSE /\ Goto(t, "pause_cancel")
            /\ ret' = [ret EXCEPT ![t] = "none"]
            /\ countAtPause' = count
    /\ UNCHANGED <<programVars, arg, count, stopReturned, armedAt, periodVars, now>>

\* pause(): if (!is_running_ || is_paused_) return;
Pause(t) ==
    /\ Calling(t, "pause")
    /\ IF ~is_running_ \/ is_paused_
       THEN Returns(t, "noop") /\ UNCHANGED countAtPause
       ELSE /\ Goto(t, "pause_cancel")
            /\ ret' = [ret EXCEPT ![t] = "none"]
            /\ countAtPause' = count
    /\ UNCHANGED <<programVars, arg, count, stopReturned, armedAt, periodVars, now>>

\* timer_.cancel(ec);
PauseCancel(t) ==
    /\ pc[t] = "pause_cancel"
    /\ Cancel
    /\ Goto(t, "pause_flag")
    /\ UNCHANGED <<fieldVars, expiry, stopped, work_guard, external, strandq,
                   threadVars, arg, op, ret, calls, historyVars, now>>

\* is_paused_ = true;
PauseFlag(t) ==
    /\ pc[t] = "pause_flag"
    /\ is_paused_' = TRUE
    /\ Returns(t, "done")
    /\ UNCHANGED <<is_running_, interval_, callback_, timerVars, contextVars,
                   threadVars, arg, op, calls, historyVars, now>>

(* ------------------------------- resume ------------------------------- *)

\* resume() that tests is_running_ only
ResumeWhenRunning(t) ==
    /\ Calling(t, "resume")
    /\ IF ~is_running_
       THEN Returns(t, "noop")
       ELSE Goto(t, "resume_flag") /\ ret' = [ret EXCEPT ![t] = "none"]
    /\ UNCHANGED <<programVars, arg, historyVars, now>>

\* resume(): if (!is_running_ || !is_paused_) return;
Resume(t) ==
    /\ Calling(t, "resume")
    /\ IF ~is_running_ \/ ~is_paused_
       THEN Returns(t, "noop")
       ELSE Goto(t, "resume_flag") /\ ret' = [ret EXCEPT ![t] = "none"]
    /\ UNCHANGED <<programVars, arg, historyVars, now>>

\* is_paused_ = false;
ResumeFlag(t) ==
    /\ pc[t] = "resume_flag"
    /\ is_paused_' = FALSE
    /\ Goto(t, "resume_expires")
    /\ UNCHANGED <<is_running_, interval_, callback_, timerVars, contextVars,
                   threadVars, arg, op, ret, calls, historyVars, now>>

\* timer_.expires_from_now(interval_);
ResumeExpires(t) ==
    /\ pc[t] = "resume_expires"
    /\ ExpiresFromNow(interval_)
    /\ armedAt' = now
    /\ armedBy' = "resume"
    /\ begun' = 0
    /\ Goto(t, "resume_wait")
    /\ UNCHANGED <<fieldVars, stopped, work_guard, external, strandq, threadVars,
                   arg, op, ret, calls, count, countAtPause, stopReturned,
                   anchorOf, now>>

\* timer_.async_wait(...);
ResumeAsyncWait(t) ==
    /\ pc[t] = "resume_wait"
    /\ AsyncWait
    /\ Returns(t, "done")
    /\ UNCHANGED <<fieldVars, expiry, contextVars, threadVars, arg, op, calls,
                   historyVars, now>>

(* ------------------------ worker and handle_wait ---------------------- *)

\* the worker is inside io_context_.run(), between two handlers
InRunLoop == thread = "running" /\ hpc[Worker] = "idle"

\* handle_wait(error) on thread h, up to the call of callback_
HandleWait(h, w) ==
    IF HandleWaitSkips(w)
    THEN UNCHANGED <<hpc, count, begun, anchorOf>>
    ELSE /\ hpc' = [hpc EXCEPT ![h] = "callback"]
         /\ count' = count + 1
         /\ begun' = begun + 1
         /\ anchorOf' = [anchorOf EXCEPT ![h] = w.anchor]

\* io_context_.run(): the timer has expired, its waits complete without error
TimerFires ==
    /\ InRunLoop
    /\ ~ContextStopped
    /\ pending > 0
    /\ now >= expiry
    /\ queue' = queue \o Completed(pending, "success")
    /\ pending' = 0
    /\ UNCHANGED <<fieldVars, expiry, stopped, work_guard, external, strandq,
                   threadVars, callerVars, historyVars, now>>

\* io_context_.run(): the next ready handler runs; bind_executor(strand_, ...)
\* runs handle_wait in place on io_context_'s own executor and hands it to the
\* strand of an external one
RunHandler ==
    /\ InRunLoop
    /\ ~ContextStopped
    /\ queue # <<>>
    /\ queue' = Tail(queue)
    /\ IF external
       THEN /\ strandq' = Append(strandq, Head(queue))
            /\ UNCHANGED <<hpc, count, begun, anchorOf>>
       ELSE /\ HandleWait(Worker, Head(queue))
            /\ UNCHANGED strandq
    /\ UNCHANGED <<fieldVars, timerVars, stopped, work_guard, external,
                   thread, joinable, spawned, callerVars, countAtPause,
                   stopReturned, armedAt, armedBy, now>>

\* the executor hands work to its first idle thread
PicksUp(p) ==
    \E j \in 1..Len(PoolOrder) :
        /\ PoolOrder[j] = p
        /\ hpc[p] = "idle"
        /\ \A i \in 1..(j - 1) : hpc[PoolOrder[i]] # "idle"

\* a thread of the external executor runs the strand's next handler
StrandRuns(p) ==
    /\ external
    /\ PicksUp(p)
    /\ strandq # <<>>
    /\ StrandFree
    /\ strandq' = Tail(strandq)
    /\ HandleWait(p, Head(strandq))
    /\ UNCHANGED <<fieldVars, timerVars, queue, stopped, work_guard, external,
                   thread, joinable, spawned, callerVars, countAtPause,
                   stopReturned, armedAt, armedBy, now>>

\* a handler that re-arms one interval after the current time
NextAnchorFromNow == now + interval_

\* timer_.expiry() + interval_
NextAnchor == expiry + interval_

\* callback_() returns once the operation it may have called has returned
CallbackReturns(h) == h \in Callers => pc[h] = "idle"

\* callback_() returns; timer_.expires_at(timer_.expiry() + interval_);
HandleWaitExpires(h) ==
    /\ hpc[h] = "callback"
    /\ CallbackReturns(h)
    /\ ExpiresAt(NextAnchor)
    /\ hpc' = [hpc EXCEPT ![h] = "rearm"]
    /\ UNCHANGED <<fieldVars, stopped, work_guard, external, strandq, thread,
                   joinable, spawned, callerVars, historyVars, now>>

\* a handler that returns without arming the next wait
HandleWaitReturns(h) ==
    /\ hpc[h] = "rearm"
    /\ hpc' = [hpc EXCEPT ![h] = "idle"]
    /\ UNCHANGED <<fieldVars, timerVars, contextVars, thread, joinable, spawned,
                   callerVars, historyVars, now>>

\* timer_.async_wait(...); and handle_wait returns
HandleWaitAsyncWait(h) ==
    /\ hpc[h] = "rearm"
    /\ AsyncWait
    /\ hpc' = [hpc EXCEPT ![h] = "idle"]
    /\ UNCHANGED <<fieldVars, expiry, contextVars, thread, joinable, spawned,
                   callerVars, historyVars, now>>

\* io_context_.run() returns and the thread function ends
WorkerExits ==
    /\ InRunLoop
    /\ ContextStopped \/ OutOfWork
    /\ thread' = "exited"
    /\ UNCHANGED <<fieldVars, timerVars, contextVars, joinable, hpc, spawned,
                   callerVars, historyVars, now>>

\* the steady clock advances
Tick ==
    /\ now < MaxTime
    /\ now' = now + 1
    /\ UNCHANGED <<programVars, callerVars, historyVars>>

(* --------------------------- specifications --------------------------- *)

CallerStep(t) ==
    \/ \E a \in StartArgs : Start(t, a[1], a[2])
    \/ StartAssign(t)
    \/ StartExpires(t)
    \/ StartAsyncWait(t)
    \/ StartThread(t)
    \/ Stop(t)
    \/ StopCancel(t)
    \/ StopGuard(t)
    \/ StopContext(t)
    \/ StopJoin(t)
    \/ StopFlags(t)
    \/ Destroy(t)
    \/ Pause(t)
    \/ PauseCancel(t)
    \/ PauseFlag(t)
    \/ Resume(t)
    \/ ResumeFlag(t)
    \/ ResumeExpires(t)
    \/ ResumeAsyncWait(t)

WorkerStep ==
    \/ TimerFires
    \/ RunHandler
    \/ HandleWaitExpires(Worker)
    \/ HandleWaitAsyncWait(Worker)
    \/ WorkerExits

PoolStep(p) ==
    \/ StrandRuns(p)
    \/ HandleWaitExpires(p)
    \/ HandleWaitAsyncWait(p)

\* a default-constructed instance driven from one thread
Next == CallerStep(MainThread) \/ WorkerStep \/ Tick

Spec == Init /\ [][Next]_vars

\* an instance of either constructor; the external executor has the threads Pool
NextAnyExecutor == Next \/ \E p \in Pool : PoolStep(p)

SpecAnyExecutor == InitAnyExecutor /\ [][NextAnyExecutor]_vars

\* worker_thread_.join() called on the worker thread itself: boost::thread
\* raises thread_resource_error, which leaves stop(), the callback, handle_wait,
\* io_context_.run() and the thread function, and the process is terminated
\* (the steps the model still lets the caller take after it do not happen)
SelfJoinThrows ==
    /\ pc[Worker] = "stop_join"
    /\ joinable
    /\ thread = "running"
    /\ thread' = "terminated"
    /\ UNCHANGED <<fieldVars, timerVars, contextVars, joinable, hpc, spawned,
                   callerVars, historyVars, now>>

\* the callback calls stop() on its own instance
CallbackCallsStop == hpc[Worker] = "callback" /\ Stop(Worker)

\* stop() running inside the callback, on the worker thread
CallbackStop ==
    \/ CallbackCallsStop
    \/ StopCancel(Worker)
    \/ StopGuard(Worker)
    \/ StopContext(Worker)
    \/ StopJoin(Worker)
    \/ StopFlags(Worker)
    \/ SelfJoinThrows

\* a default-constructed instance whose callback may call stop()
NextStopInCallback == Next \/ CallbackStop

SpecStopInCallback == Init /\ [][NextStopInCallback]_vars

\* the strand of the other instance runs one of its handlers at a time
PeerStrandFree == \A h \in HandlerThreads : hpc[h] # "peer"

\* a thread of the shared executor runs a handler of the other instance, which
\* invokes that instance's callback; the other instance always has one ready
PeerRuns(p) ==
    /\ external
    /\ PicksUp(p)
    /\ PeerStrandFree
    /\ hpc' = [hpc EXCEPT ![p] = "peer"]
    /\ UNCHANGED <<fieldVars, timerVars, contextVars, thread, joinable, spawned,
                   callerVars, historyVars, now>>

\* the other instance's handler returns
PeerReturns(p) ==
    /\ hpc[p] = "peer"
    /\ hpc' = [hpc EXCEPT ![p] = "idle"]
    /\ UNCHANGED <<fieldVars, timerVars, contextVars, thread, joinable, spawned,
                   callerVars, historyVars, now>>

PeerStep(p) == PeerRuns(p) \/ PeerReturns(p)

\* PeriodicExecutor(Executor): strand_ on the shared external executor
InitSharedExecutor == Constructed /\ external = TRUE

\* the calls that keep the instance active: start(), pause(), resume()
ActiveCallerStep(t) ==
    \/ \E a \in StartArgs : Start(t, a[1], a[2])
    \/ StartAssign(t)
    \/ StartExpires(t)
    \/ StartAsyncWait(t)
    \/ StartThread(t)
    \/ Pause(t)
    \/ PauseCancel(t)
    \/ PauseFlag(t)
    \/ Resume(t)
    \/ ResumeFlag(t)
    \/ ResumeExpires(t)
    \/ ResumeAsyncWait(t)

\* two instances on one external executor with the threads Pool: this one, and
\* another one seen through the handlers of its strand
NextSharedExecutor ==
    \/ ActiveCallerStep(MainThread)
    \/ TimerFires
    \/ RunHandler
    \/ \E p \in Pool : PoolStep(p)
    \/ \E p \in Pool : PeerStep(p)
    \/ Tick

SpecSharedExecutor == InitSharedExecutor /\ [][NextSharedExecutor]_vars

\* normal scheduling: the clock advances only when the worker has nothing it
\* can do and no call is in progress, so every statement and every callback
\* takes less than one unit of time
TickPrompt ==
    /\ ~ENABLED WorkerStep
    /\ pc[MainThread] = "idle"
    /\ Tick

\* a default-constructed instance under normal scheduling
NextPrompt == CallerStep(MainThread) \/ WorkerStep \/ TickPrompt

SpecPrompt == Init /\ [][NextPrompt]_vars

\* worker_thread_ = boost::thread(...) cannot create the thread: the
\* constructor raises thread_resource_error, which leaves start()
StartThreadFails(t) ==
    /\ pc[t] = "start_thread"
    /\ Returns(t, "throws")
    /\ UNCHANGED <<programVars, arg, op, calls, historyVars, now>>

\* a default-constructed instance on a system that may run out of threads
NextThreadFailure == Next \/ StartThreadFails(MainThread)

SpecThreadFailure == Init /\ [][NextThreadFailure]_vars

\* a second thread of the application that holds the instance
OtherThread == "other"

\* worker_thread_ = boost::thread(...) while worker_thread_ is still joinable:
\* StartThread is the build whose move assignment detaches the old thread;
\* in the build whose move assignment calls std::terminate the process ends
\* here (the steps the model still lets the callers take do not happen)
StartThreadTerminates(t) ==
    /\ pc[t] = "start_thread"
    /\ joinable
    /\ thread' = "terminated"
    /\ UNCHANGED <<fieldVars, timerVars, contextVars, joinable, hpc, spawned,
                   callerVars, historyVars, now>>

\* the steps of start() on thread t
StartStep(t) ==
    \/ \E a \in StartArgs : Start(t, a[1], a[2])
    \/ StartAssign(t)
    \/ StartExpires(t)
    \/ StartAsyncWait(t)
    \/ StartThread(t)
    \/ StartThreadTerminates(t)

\* the steps of stop() on thread t
StopStep(t) ==
    \/ Stop(t)
    \/ StopCancel(t)
    \/ StopGuard(t)
    \/ StopContext(t)
    \/ StopJoin(t)
    \/ StopFlags(t)

\* the worker inside io_context_.run(); with work_guard_ held and no stop()
\* called, run() does not return
RunLoopStep ==
    \/ TimerFires
    \/ RunHandler
    \/ HandleWaitExpires(Worker)
    \/ HandleWaitAsyncWait(Worker)

\* a default-constructed instance on which two threads call start() without
\* a lock, and nothing else
NextConcurrentStart ==
    \/ StartStep(MainThread)
    \/ StartStep(OtherThread)
    \/ RunLoopStep
    \/ Tick

SpecConcurrentStart == Init /\ [][NextConcurrentStart]_vars

\* a default-constructed instance on which one thread calls start(), pause()
\* and resume() and a second thread calls stop(), without a lock
NextConcurrentStop ==
    \/ ActiveCallerStep(MainThread)
    \/ StopStep(OtherThread)
    \/ WorkerStep
    \/ Tick

SpecConcurrentStop == Init /\ [][NextConcurrentStop]_vars

\* the worker thread is scheduled again and again and the steady clock advances;
\* the caller is free to make no further call
SpecFair == Spec /\ WF_vars(WorkerStep) /\ WF_vars(Tick)

\* the statements of stop() after its test of is_running_, on thread t
StopProceeds(t) ==
    \/ StopCancel(t)
    \/ StopGuard(t)
    \/ StopContext(t)
    \/ StopJoin(t)
    \/ StopFlags(t)

\* the worker thread is scheduled again and again, and so is a caller thread
\* that is inside stop(); the clock and further calls are free
SpecFairStop == Spec /\ WF_vars(WorkerStep) /\ WF_vars(StopProceeds(MainThread))

TypeOK ==
    /\ is_running_ \in BOOLEAN /\ is_paused_ \in BOOLEAN
    /\ interval_ \in Intervals \cup {0}
    /\ callback_ \in Callbacks \cup {NoCallback}
    /\ expiry \in Nat /\ pending \in Nat
    /\ stopped \in BOOLEAN /\ work_guard \in BOOLEAN /\ external \in BOOLEAN
    /\ thread \in {"none", "running", "exited", "terminated"}
    /\ joinable \in BOOLEAN
    /\ hpc \in [HandlerThreads -> {"idle", "callback", "rearm", "peer"}]
    /\ now \in 0..MaxTime
    /\ calls \in 0..MaxCalls
    /\ count \in Nat /\ countAtPause \in Nat /\ spawned \in Nat
    /\ armedBy \in {"none", "start", "resume"}
    /\ begun \in Nat
    /\ anchorOf \in [HandlerThreads -> Nat]

(* ------------------------------ lifecycle ----------------------------- *)

\* the four states of the lifecycle, read off the two flags
Running == is_running_ /\ ~is_paused_
Paused == is_running_ /\ is_paused_
Stopped == ~is_running_ /\ stopReturned
Idle == ~is_running_ /\ ~stopReturned

\* threads inside callback_()
InCallback == {h \in HandlerThreads : hpc[h] = "callback"}

\* the step is caller t calling operation name
Calls(t, name) == pc[t] = "idle" /\ calls' = calls + 1 /\ op'[t] = name

\* the step is caller t returning from the statement at label
ReturnsFrom(t, label) == pc[t] = label /\ pc'[t] = "idle"

StopLabels == {"stop_cancel", "stop_guard", "stop_context", "stop_join", "stop_flags"}

(* -------------------------------- claims ------------------------------ *)

\* C1: callback invocations of one instance never overlap: at most one thread
\* is inside callback_() at any time, whichever executor the strand is built on
\* and however many threads that executor has.
C1_InvocationsNeverOverlap == Cardinality(InCallback) <= 1

\* a callback is executing on a pool thread while another handler waits in the strand
C1_Witness ==
    /\ external
    /\ strandq # <<>>
    /\ Head(strandq).ec = "success"
    /\ ~is_paused_
    /\ \E p \in Pool : hpc[p] = "callback"

C3_NoInvocationFromPauseToResume ==
    [][(Calls(MainThread, "resume") /\ Paused) => count = countAtPause]_vars

\* C4: once a stop() that found the instance active has returned, no callback
\* invocation begins any more, whatever time passes and whatever is called.
C4_NoInvocationAfterStop == [][stopReturned => count' = count]_vars

\* stop() was called a second time, and a wait the last handler armed is overdue
\* by a whole interval
C4_Witness ==
    /\ stopReturned
    /\ op[MainThread] = "stop"
    /\ ret[MainThread] = "noop"
    /\ count > 0
    /\ pending > 0
    /\ now >= expiry + interval_

\* C5: stop() on an instance that is not running (Idle or Stopped) changes
\* nothing and returns at once, so stop(); stop() leaves the state of one stop().
C5_StopIdempotent ==
    [][(Calls(MainThread, "stop") /\ ~is_running_)
        => (pc'[MainThread] = "idle" /\ UNCHANGED <<programVars, historyVars>>)]_vars

\* a second stop() has returned on a Stopped instance
C5_Witness ==
    /\ Stopped
    /\ pc[MainThread] = "idle"
    /\ op[MainThread] = "stop"
    /\ ret[MainThread] = "noop"

\* C6: when a stop() that found the instance active returns, no callback is in
\* progress, the worker thread has ended and is joined, and both flags are false.
C6_StopReturnsAfterWorkerExit ==
    [][ReturnsFrom(MainThread, "stop_flags")
        => /\ InCallback' = {}
           /\ hpc'[Worker] = "idle"
           /\ thread' = "exited"
           /\ ~joinable'
           /\ ~is_running_'
           /\ ~is_paused_']_vars

\* stop() has returned after a handler that was running during it re-armed the timer
C6_Witness ==
    /\ pc[MainThread] = "idle"
    /\ op[MainThread] = "stop"
    /\ ret[MainThread] = "done"
    /\ pending = 1

\* C7: start() on an instance that is running (Running or Paused) returns false
\* and leaves the interval, the callback, the flags, the timer, the context and
\* the worker as they were.
C7_StartRejectedChangesNothing ==
    [][(Calls(MainThread, "start") /\ is_running_)
        => /\ pc'[MainThread] = "idle"
           /\ ret'[MainThread] = "false"
           /\ UNCHANGED <<programVars, historyVars>>]_vars

\* a start() was rejected on a Paused instance whose schedule has fired
C7_Witness ==
    /\ ret[MainThread] = "false"
    /\ op[MainThread] = "start"
    /\ Paused
    /\ count > 0

\* C8: the first start() of an instance returns true with the interval and the
\* callback recorded, the instance Running, exactly one wait pending whose
\* anchor is (now at expires_from_now) + interval, and one worker created.
C8_FirstStart ==
    [][(ReturnsFrom(MainThread, "start_thread") /\ ~stopReturned /\ spawned = 0)
        => /\ ret'[MainThread] = "true"
           /\ interval_' = arg[MainThread].interval
           /\ callback_' = arg[MainThread].callback
           /\ Running'
           /\ pending' = 1
           /\ queue' = <<>>
           /\ expiry' = armedAt' + arg[MainThread].interval
           /\ thread' = "running"
           /\ joinable'
           /\ spawned' = 1
           /\ count' = 0]_vars

\* the first start() has just returned
C8_Witness ==
    /\ calls = 1
    /\ ret[MainThread] = "true"
    /\ spawned = 1
    /\ pending = 1
    /\ now > 0

\* C9: pause() on an instance that is not Running (Idle, Paused or Stopped)
\* returns at once and changes nothing: no wait is cancelled, the flags, the
\* anchor and the worker stay as they were.
C9_PauseNoopUnlessRunning ==
    [][(Calls(MainThread, "pause") /\ ~Running)
        => (pc'[MainThread] = "idle" /\ UNCHANGED <<programVars, historyVars>>)]_vars

\* a second pause() has returned on a Paused instance
C9_Witness ==
    /\ Paused
    /\ op[MainThread] = "pause"
    /\ ret[MainThread] = "noop"

\* C10: while the instance is Paused (and no stop() is in progress) its worker
\* thread is alive: it has not left io_context_.run() and is not joined.
C10_WorkerAliveWhilePaused ==
    (Paused /\ pc[MainThread] \notin StopLabels) => (thread = "running" /\ joinable)

\* C10 on an instance that no stop() has ever stopped: the work guard keeps the
\* worker created by start() inside io_context_.run() throughout Paused.
C10_WorkerAliveUntilFirstStop ==
    (Paused /\ ~stopReturned /\ pc[MainThread] \notin StopLabels)
        => (thread = "running" /\ joinable /\ spawned = 1)

\* C11: resume() on an instance that is not Paused (Idle, Running or Stopped)
\* returns at once and changes nothing: no wait is armed, the anchor and the
\* flags stay as they were, so resume(); resume() arms one wait only.
C11_ResumeNoopUnlessPaused ==
    [][(Calls(MainThread, "resume") /\ ~Paused)
        => (pc'[MainThread] = "idle" /\ UNCHANGED <<programVars, historyVars>>)]_vars

\* a second resume() has returned right after the first one re-armed the timer
C11_Witness ==
    /\ Running
    /\ op[MainThread] = "resume"
    /\ ret[MainThread] = "noop"
    /\ armedBy = "resume"
    /\ countAtPause = count
    /\ pending = 1

\* thread h begins an invocation of callback_ in this step
Begins(h) == hpc[h] = "idle" /\ hpc'[h] = "callback"

\* the last call of the caller was a resume() that re-armed the timer and returned
Resumed ==
    /\ armedBy = "resume"
    /\ op[MainThread] = "resume"
    /\ pc[MainThread] = "idle"
    /\ ret[MainThread] = "done"

\* C12: the first invocation after a resume() that found the instance Paused
\* is the one of the anchor resume-time + interval: it does not begin before
\* that time, and it belongs to the wait resume() armed.
C12_FirstInvocationAfterResume ==
    [][\A h \in HandlerThreads :
        (Begins(h) /\ Resumed /\ begun = 0)
            => (anchorOf'[h] = armedAt + interval_ /\ now >= armedAt + interval_)]_vars

\* thread h returns from callback_ and moves the timer in this step
Rearms(h) == hpc[h] = "callback" /\ hpc'[h] = "rearm"

\* the anchor of the k-th invocation since the timer was last armed by
\* start() or resume(): armedAt + interval_ is the first one
AnchorOfInvocation(k) == armedAt + k * interval_

\* C13: while the instance is Running and no call is in progress, the handler
\* of an invocation with anchor A arms the next wait at exactly A + interval,
\* and the k-th invocation since the last start() or resume() has the anchor
\* A0 + (k-1)*interval, A0 being the first anchor start() or resume() set.
C13_AnchorsOnGrid ==
    [][\A h \in HandlerThreads :
        (Running /\ pc[MainThread] = "idle") =>
            /\ Rearms(h) => expiry' = anchorOf[h] + interval_
            /\ Begins(h) => anchorOf'[h] = AnchorOfInvocation(begun')]_vars

\* C13 for the schedule start() armed, up to the first resume(): every
\* invocation is on the grid of start() and re-arms one interval after its anchor.
C13_AnchorsOnGridOfStart ==
    [][\A h \in HandlerThreads :
        armedBy = "start" =>
            /\ Rearms(h) => expiry' = anchorOf[h] + interval_
            /\ Begins(h) => anchorOf'[h] = AnchorOfInvocation(begun')]_vars

\* the instance is Running on the schedule start() armed: nothing has paused it
OnScheduleOfStart == Running /\ armedBy = "start" /\ pc[MainThread] # "start_expires"

\* the anchors of the current schedule that lie at or before the current time
AnchorsPassed == (now - armedAt) \div interval_

\* C14: overrun is caught up, never skipped. On the schedule start() armed,
\* the k-th invocation is the one of the k-th anchor however late it begins,
\* the wait armed after it is the one of the next anchor even when that anchor
\* lies in the past, and once the timer waits for an anchor in the future the
\* number of invocations equals the number of anchors that have passed.
C14_BurstCatchUp ==
    OnScheduleOfStart =>
        /\ AnchorOfInvocation(begun) <= now
        /\ expiry = IF InCallback # {} THEN AnchorOfInvocation(begun)
                                      ELSE AnchorOfInvocation(begun + 1)
        /\ (pending > 0 /\ expiry > now) => begun = AnchorsPassed

\* a callback has overrun two anchors: the handler arms a wait in the past
C14_Witness ==
    /\ OnScheduleOfStart
    /\ \E h \in HandlerThreads : hpc[h] = "rearm"
    /\ expiry + interval_ <= now
    /\ begun < AnchorsPassed

\* the first start() of a fresh instance succeeded and neither pause(), stop()
\* nor the destructor has been called since
Uninterrupted ==
    /\ OnScheduleOfStart
    /\ spawned = 1
    /\ ~stopReturned
    /\ pc[MainThread] = "idle"
    /\ op[MainThread] \in {"start", "resume"}

\* an anchor within the range of the clock has not been invoked yet
Owed == Uninterrupted /\ AnchorOfInvocation(begun + 1) <= MaxTime

\* C15: after a successful start() on a fresh instance, as long as no pause(),
\* stop() or destructor is called, the callback is invoked again and again:
\* whenever an anchor within the range of the clock is still to come, the
\* invocation of that anchor eventually begins (worker and clock being fair).
C15_InvokedAgainAndAgain ==
    \A n \in 0..MaxTime : (Owed /\ begun = n) ~> (begun > n \/ ~Uninterrupted)

\* C15, the loop never ends on its own: while Uninterrupted the worker is inside
\* io_context_.run() and a wait is pending, queued or being handled.
C15_LoopNeverEnds ==
    Uninterrupted =>
        /\ thread = "running" /\ ~stopped
        /\ pending + Len(queue) + Cardinality({h \in HandlerThreads : hpc[h] # "idle"}) = 1

\* the last anchor within the range of the clock has been invoked and the
\* loop waits for the next one
C15_Witness ==
    /\ Uninterrupted
    /\ begun >= 3
    /\ begun = AnchorsPassed
    /\ pending = 1

\* a resume() re-armed the timer and neither pause(), stop() nor the
\* destructor has been called since
ResumedUninterrupted ==
    /\ Running
    /\ armedBy = "resume"
    /\ pc[MainThread] = "idle"
    /\ op[MainThread] \in {"start", "resume"}

\* the handlers of the instance that are armed, queued or being executed
InFlight == pending + Len(queue) + Cardinality({h \in HandlerThreads : hpc[h] # "idle"})

\* C16: after resume() on a Paused instance, with no pause() or stop() after
\* it, the callback will be invoked again: the worker is inside
\* io_context_.run(), the context is not stopped and a wait is armed, queued
\* or being handled.
C16_LoopAliveAfterResume ==
    ResumedUninterrupted => (thread = "running" /\ ~stopped /\ InFlight >= 1)

\* C16 on an instance that no stop() has ever stopped: after resume() the
\* callback is eventually invoked again, and again, for as long as two further
\* anchors lie within the range of the clock (worker and clock being fair).
C16_InvokedAgainUntilFirstStop ==
    \A n \in 0..MaxTime :
        (ResumedUninterrupted /\ ~stopReturned /\ begun = n
            /\ AnchorOfInvocation(n + 2) <= MaxTime)
        ~> (begun > n \/ ~ResumedUninterrupted)

\* a worker thread is created in this step
WorkerCreated == thread' = "running" /\ thread # "running"

\* C17: at most one worker exists at any time, and only between a successful
\* start() and the completion of the following stop(): a worker is created
\* only by start() and only when the previous one has ended and is joined, and
\* whenever the instance is Idle or Stopped no worker is running or joinable.
C17_AtMostOneWorker ==
    [][/\ WorkerCreated => (pc[MainThread] = "start_thread" /\ ~joinable /\ is_running_')
       /\ ~is_running_' => (thread' # "running" /\ ~joinable')]_vars

\* the second stop() has returned: two workers were created, one after the other
C17_Witness ==
    /\ Stopped
    /\ spawned = 2
    /\ thread = "exited"
    /\ ~joinable

\* the step is a statement of pause() or resume() executed by the caller
PauseOrResumeStep ==
    /\ pc' # pc \/ calls' # calls
    /\ op'[MainThread] \in {"pause", "resume"}

\* C18: pause() and resume() leave the worker alone: no statement of theirs
\* creates, joins or ends the worker thread or tells io_context_.run() to
\* return. Only the last statement of start() creates a worker, only stop()
\* joins it, and it leaves run() only after a stop() stopped the context or
\* released the work guard; on an instance never stopped the worker running
\* when resume() returns is the one start() created.
C18_PauseResumeLeaveWorker ==
    [][/\ PauseOrResumeStep => UNCHANGED <<thread, joinable, spawned, stopped, work_guard>>
       /\ WorkerCreated => pc[MainThread] = "start_thread"
       /\ (joinable /\ ~joinable') => pc[MainThread] = "stop_join"
       /\ (thread = "running" /\ thread' = "exited") => (stopped \/ ~work_guard)
       /\ (stopped' # stopped \/ work_guard' # work_guard)
            => pc[MainThread] \in {"stop_guard", "stop_context"}
       /\ (ReturnsFrom(MainThread, "resume_wait") /\ ~stopReturned)
            => (thread' = "running" /\ joinable' /\ spawned' = 1)]_vars

\* after pause() and resume() the worker start() created invokes the callback
C18_Witness ==
    /\ Resumed
    /\ thread = "running"
    /\ spawned = 1
    /\ begun >= 1
    /\ armedAt > 0

\* the interval and the callback the last accepted start() was called with
Recorded == interval_ = arg[MainThread].interval /\ callback_ = arg[MainThread].callback

\* C19: interval_ and callback_ are written by the assignment of an accepted
\* start() only, which runs when no schedule is active; pause(), resume(),
\* handle_wait, stop() and a rejected start() leave them as recorded, and both
\* resume() and handle_wait arm the timer with the recorded interval.
C19_IntervalAndCallbackKept ==
    [][/\ (interval_' # interval_ \/ callback_' # callback_)
            => (pc[MainThread] = "start_assign" /\ ~is_running_)
       /\ is_running_' => Recorded'
       /\ pc[MainThread] = "resume_expires" /\ pc'[MainThread] = "resume_wait"
            => expiry' = now + arg[MainThread].interval
       /\ \A h \in HandlerThreads :
            Rearms(h) => expiry' = expiry + arg[MainThread].interval]_vars

\* a start() was rejected after pause() and resume(), and the callback runs on
C19_Witness ==
    /\ Running
    /\ armedBy = "resume"
    /\ op[MainThread] = "start"
    /\ ret[MainThread] = "false"
    /\ begun >= 1
    /\ Recorded

\* the destructor has returned: the instance is gone
Destroyed == op[MainThread] = "destroy" /\ pc[MainThread] = "idle"

\* C20: the destructor runs stop(), whatever the state: once it has returned
\* on a default-constructed instance the worker thread is not running and not
\* joinable, no thread is inside handle_wait or the callback, and no
\* invocation begins any more.
C20_NothingSurvivesDestruction ==
    [][/\ Destroyed' =>
            /\ thread' # "running" /\ ~joinable'
            /\ \A h \in HandlerThreads : hpc'[h] = "idle"
       /\ Destroyed => count' = count]_vars

\* a schedule that had invoked the callback was destroyed, and the clock has
\* passed the anchor that was armed last
C20_Witness ==
    /\ Destroyed
    /\ ret[MainThread] = "done"
    /\ thread = "exited"
    /\ count >= 1
    /\ now >= expiry + interval_

\* the callback is inside a stop() it called on its own instance
StopInCallback == pc[Worker] # "idle"

\* C21: a stop() called from within the callback on the worker never returns
\* normally: the join of the worker by itself never completes (it waits or it
\* ends the process), the callback never returns, and the instance stays
\* running and never becomes Stopped.
C21_StopInCallbackNeverReturns ==
    [][StopInCallback =>
        /\ StopInCallback'
        /\ hpc'[Worker] = "callback"
        /\ is_running_' /\ ~Stopped']_vars

\* the callback has stopped the context and stands in the join of its own
\* thread, long after the anchor that was armed last
C21_Witness ==
    /\ pc[Worker] = "stop_join"
    /\ thread = "running"
    /\ stopped /\ ~work_guard
    /\ is_running_
    /\ now >= expiry + interval_

\* the last call was a start() that the failure to create the worker ended
StartFailed ==
    /\ op[MainThread] = "start"
    /\ ret[MainThread] = "throws"
    /\ pc[MainThread] = "idle"

\* C22: when the worker cannot be created, start() reports the failure and
\* leaves the instance as it was before the call: not running, not paused, no
\* wait armed or queued.
C22_FailedStartLeavesPreStartState ==
    StartFailed => (~is_running_ /\ ~is_paused_ /\ pending = 0 /\ queue = <<>>)

\* an accepted stop() returns in this step from a schedule start() armed and
\* nothing paused
StopEndsRunOfStart ==
    /\ ReturnsFrom(MainThread, "stop_flags")
    /\ op[MainThread] = "stop"
    /\ armedBy = "start"
    /\ ~is_paused_

\* whole intervals between the return of start() and the call of stop()
WholeIntervals == (now - armedAt) \div interval_

\* C23: under normal scheduling, with no pause and callbacks shorter than the
\* interval, the number N of invocations between start() and stop() satisfies
\* floor(D/I) - 2 <= N <= floor(D/I) + 2, D being the time from the return of
\* start() to the call of stop().
C23_CountWithinTolerance ==
    [][StopEndsRunOfStart =>
        (begun + 2 >= WholeIntervals /\ begun <= WholeIntervals + 2)]_vars

\* C23 for the first start() of an instance: the count is floor(D/I), or one
\* less when stop() is called at an anchor before the worker has run.
C23_CountOfFirstRun ==
    [][(StopEndsRunOfStart /\ ~stopReturned) =>
        (begun + 1 >= WholeIntervals /\ begun <= WholeIntervals)]_vars

\* the next statement of the caller writes is_paused_
CallerWritesPaused ==
    pc[MainThread] \in {"start_assign", "pause_flag", "resume_flag", "stop_flags"}

\* the next step of the worker is handle_wait reading is_paused_ (the test
\* reads it only when the wait was not cancelled)
WorkerReadsPaused ==
    /\ ~external
    /\ InRunLoop /\ ~ContextStopped
    /\ queue # <<>> /\ Head(queue).ec = "success"

\* the next statement of the caller is a call on timer_
CallerUsesTimer ==
    pc[MainThread] \in {"start_expires", "start_wait", "pause_cancel", "stop_cancel",
                          "resume_expires", "resume_wait"}

\* the next statement of a handler thread is a call on timer_
\* (expires_at(expiry() + interval_) or async_wait)
WorkerUsesTimer ==
    \E h \in HandlerThreads :
        \/ hpc[h] = "callback" /\ CallbackReturns(h)
        \/ hpc[h] = "rearm"

\* C24: the flags and the timer are synchronized between the caller and the
\* worker. The code takes no lock and uses no atomic, so two accesses that
\* are both the next statement of their thread are unordered: in no reachable
\* state is a caller's write of is_paused_ or call on timer_ due together with
\* the worker's read of is_paused_ or call on timer_.
C24_NoUnorderedAccess ==
    /\ ~(CallerWritesPaused /\ WorkerReadsPaused)
    /\ ~(CallerUsesTimer /\ WorkerUsesTimer)

\* C25: invocations occur in strictly increasing anchor order, across any
\* sequence of pause() and resume(): the anchor of the wait of an invocation
\* that begins is greater than the anchor of every earlier invocation.
C25_AnchorsStrictlyIncrease ==
    [][\A h \in HandlerThreads :
        Begins(h) => \A g \in HandlerThreads : anchorOf'[h] > anchorOf[g]]_vars

\* threads inside the callback of the other instance
PeerInCallback == {h \in HandlerThreads : hpc[h] = "peer"}

\* C26: with several instances on one multi-threaded external executor the
\* invocations of each instance are serialized by that instance's strand: at
\* most one thread is inside the callback of this instance and at most one
\* inside the callback of the other.
C26_SerializedPerInstance ==
    Cardinality(InCallback) <= 1 /\ Cardinality(PeerInCallback) <= 1

\* serialization is not global: each of the two instances has a callback
\* running, on different threads of the executor, while a further handler of
\* this instance waits for its strand
C26_Witness ==
    /\ Cardinality(InCallback) = 1
    /\ Cardinality(PeerInCallback) = 1
    /\ strandq # <<>>

\* the worker takes the next ready handler and runs handle_wait in this step
RunsHandler == hpc[Worker] = "idle" /\ queue # <<>> /\ queue' = Tail(queue)

\* C27: the shape of handle_wait. The handler of a cancelled wait invokes the
\* callback zero times and arms nothing: it leaves the timer and the count as
\* they are. The handler of a wait that fired, run while the instance is not
\* paused, invokes the callback once, then moves the expiry (arming nothing
\* yet) and arms exactly one wait before it returns.
C27_LoopShape ==
    [][/\ (RunsHandler /\ Head(queue).ec = "operation_aborted")
            => (hpc'[Worker] = "idle" /\ UNCHANGED <<count, timerVars>>)
       /\ (RunsHandler /\ Head(queue).ec = "success" /\ ~is_paused_)
            => (hpc'[Worker] = "callback" /\ count' = count + 1
                /\ UNCHANGED timerVars)
       /\ hpc[Worker] # "idle" => count' = count
       /\ Rearms(Worker) => pending' = 0
       /\ (hpc[Worker] = "rearm" /\ hpc'[Worker] = "idle")
            => (pending' = pending + 1 /\ expiry' = expiry)]_vars

\* pause() cancelled a wait that had not fired, its handler has run and the
\* timer is left unarmed
C27_Witness ==
    /\ Paused
    /\ now < expiry
    /\ count >= 1
    /\ pending = 0
    /\ queue = <<>>
    /\ hpc[Worker] = "idle"

\* the next ready handler belongs to a wait that fired, and pause() has
\* returned since: timer_.cancel() came too late for this wait
FiredBeforePause ==
    /\ Paused
    /\ pc[MainThread] = "idle"
    /\ queue # <<>>
    /\ Head(queue).ec = "success"

\* C28: the handler of a wait that fired before pause() cancelled the timer,
\* run once pause() has set is_paused_, invokes the callback zero times and
\* arms no wait: the count and the timer stay as they are and the handler ends.
C28_PausedFlagStopsFiredWait ==
    [][(RunsHandler /\ Head(queue).ec = "success" /\ is_paused_)
        => (hpc'[Worker] = "idle" /\ UNCHANGED <<count, timerVars>>)]_vars

\* pause() has returned without an invocation, and the handler of the wait
\* that fired before it is the next the worker runs
C28_Witness ==
    /\ FiredBeforePause
    /\ InRunLoop /\ ~ContextStopped
    /\ count = countAtPause
    /\ pending = 0

\* the caller is inside start() or resume(), or has returned from one that
\* armed the timer, and no invocation has begun since the timer was armed
FirstSinceArmed == armedBy \in {"start", "resume"} /\ begun = 0

\* C29 (anchor part): an invocation never begins before the anchor of the wait
\* it belongs to, and no step of a caller inside start(), pause(), resume() or
\* stop() changes the invocation count.
C29_NotBeforeOwnAnchor ==
    [][/\ \A h \in HandlerThreads : Begins(h) => now >= anchorOf'[h]
       /\ pc'[MainThread] # pc[MainThread] => count' = count]_vars

\* C29 (start part): the first invocation after a start() begins no earlier
\* than a full interval after start() armed the timer, and the count is 0
\* when the first start() returns.
C29_FirstAfterStart ==
    [][/\ \A h \in HandlerThreads :
            (Begins(h) /\ FirstSinceArmed /\ armedBy = "start")
                => now >= armedAt + interval_
       /\ (ReturnsFrom(MainThread, "start_thread") /\ spawned = 0) => count' = 0]_vars

\* C29: no invocation begins before its anchor, start() and resume() invoke
\* nothing themselves, the first invocation after start() or resume() begins
\* no earlier than a full interval after the call armed the timer, and the
\* count is 0 when the first start() returns.
C29_NoInvocationBeforeAnchor ==
    [][/\ \A h \in HandlerThreads :
            /\ Begins(h) => now >= anchorOf'[h]
            /\ (Begins(h) /\ FirstSinceArmed) => now >= armedAt + interval_
       /\ pc'[MainThread] # pc[MainThread] => count' = count
       /\ (ReturnsFrom(MainThread, "start_thread") /\ spawned = 0) => count' = 0]_vars

\* the caller calls start() in this step
CallsStart == pc[MainThread] = "idle" /\ calls' = calls + 1 /\ op'[MainThread] = "start"

Restarted ==
    /\ stopReturned
    /\ pc[MainThread] = "idle"
    /\ op[MainThread] = "start"
    /\ ret[MainThread] = "true"

\* C31: a start() that returns true after a completed stop() yields a working
\* schedule, as the first start() does: until the next call the new worker is
\* inside io_context_.run(), the context is not stopped, and a wait is
\* pending, queued or being handled, so the callback will be invoked.
C31_RestartYieldsWorkingSchedule ==
    Restarted => (thread = "running" /\ ~stopped /\ InFlight >= 1)

\* C31 as a progress property: once a restarted instance has an anchor within
\* the range of the clock, the invocation of that anchor eventually begins or
\* the caller makes another call (worker and clock being fair).
C31_RestartedIsInvoked ==
    (Restarted /\ begun = 0 /\ AnchorOfInvocation(1) <= MaxTime)
        ~> (begun > 0 \/ ~Restarted)

\* no thread is inside handle_wait
NoHandlerExecuting == \A h \in HandlerThreads : hpc[h] = "idle"

\* C32: while the instance is Paused and no handler is executing, no timer
\* wait is pending.
C32_NoWaitPendingWhilePaused ==
    (Paused /\ NoHandlerExecuting) => pending = 0

\* C32, the step behind it: handle_wait arms no wait once is_paused_ is set.
C32_NoRearmOncePaused ==
    [][\A h \in HandlerThreads :
        (hpc[h] = "rearm" /\ hpc'[h] = "idle" /\ is_paused_) => pending' = pending]_vars

\* the handlers in q that belong to a wait that fired
Fired(q) == {i \in 1..Len(q) : q[i].ec = "success"}

\* the waits that keep a loop alive: pending on the timer, fired with the
\* handler still to run, or with the handler between its entry and its return
LiveLoops ==
    pending + Cardinality(Fired(queue)) + Cardinality(Fired(strandq))
        + Cardinality({h \in HandlerThreads : hpc[h] \in {"callback", "rearm"}})

\* C33: an instance has at most one live loop at every moment, whatever the
\* interleaving of pause() and resume() with the worker.
C33_AtMostOneLiveLoop == LiveLoops <= 1

\* C34: for an instance constructed with an external executor, when stop()
\* returns no callback is executing on a thread of that executor, and none
\* begins while the instance is Stopped.
C34_ExternalStopGuarantee ==
    [][external =>
        /\ ReturnsFrom(MainThread, "stop_flags") => InCallback' = {}
        /\ Stopped => count' = count]_vars

\* both threads have called start() and both calls are over
BothStartsOver ==
    \A t \in {MainThread, OtherThread} :
        pc[t] = "idle" /\ op[t] = "start" /\ ret[t] # "none"

\* the threads whose last start() returned true
StartedBy == {t \in {MainThread, OtherThread} : op[t] = "start" /\ ret[t] = "true"}

\* C35: of two start() calls made by two threads on an Idle instance exactly
\* one returns true and the other false; one worker is created, one wait is
\* armed, and the interval and the callback are those of the call that
\* returned true.
C35_OneStartWins ==
    (BothStartsOver /\ calls = 2 /\ thread # "terminated") =>
        /\ Cardinality(StartedBy) = 1
        /\ spawned = 1
        /\ LiveLoops = 1
        /\ \A t \in StartedBy :
                interval_ = arg[t].interval /\ callback_ = arg[t].callback

\* C36: the paused flag is never set on an instance that is not running, also
\* when pause() or resume() on one thread interleaves with stop() on another.
C36_PausedImpliesRunning == is_paused_ => is_running_

\* C37: a stop() called from a caller thread on a Running or Paused instance
\* eventually returns, whatever the worker is doing when it is called
\* (callbacks return, worker and caller being scheduled fairly).
C37_StopTerminates ==
    (pc[MainThread] \in StopLabels) ~> (pc[MainThread] = "idle")

\* stop() has returned after waiting for a callback that was in progress when
\* it cancelled the timer: the wait the handler armed afterwards is left over
C37_Witness ==
    /\ pc[MainThread] = "idle"
    /\ op[MainThread] = "stop"
    /\ ret[MainThread] = "done"
    /\ thread = "exited"
    /\ count >= 1
    /\ pending = 1
    /\ expiry > now

====
